---------------------------- MODULE Spec2Model ----------------------------
(***************************************************************************)
(* Vector2D<T> (src/vector2d/mod.rs): construction, accessors, the zero    *)
(* vector and the polar-angle comparator arg_cmp, for T a signed integer   *)
(* type of W bits.                                                         *)
(*                                                                         *)
(* One call of arg_cmp is followed statement by statement: the two         *)
(* debug_assert! lines, the half-plane test, and the closure handed to     *)
(* then_with with its two multiplications.  The build is part of the       *)
(* initial state: whether debug assertions are compiled in, and what a     *)
(* multiplication of T does with a product outside T's range.              *)
(***************************************************************************)
EXTENDS Integers, Sequences, FiniteSets

VARIABLES
    debug_assertions, \* cfg(debug_assertions): debug_assert! is compiled in
    arith,            \* what T's `*` does: "exact", "checked" or "wrapping"
    pc,               \* position of the caller / of the call of arg_cmp
    args,             \* the four scalars the caller builds the vectors from
    self,             \* first operand of arg_cmp
    other,            \* second operand of arg_cmp
    self_lower,       \* (self.y(), self.x()) < (0, 0), once evaluated
    other_lower,      \* (other.y(), other.x()) < (0, 0), once evaluated
    half_tested,      \* the half-plane test of line 74-75 has been evaluated
    lhs,              \* other.x() * self.y(), once evaluated
    rhs,              \* self.x() * other.y(), once evaluated
    muls,             \* number of multiplications this call has performed
    result,           \* the Ordering returned, "none" before the return
    panic             \* the panic message, "none" when no panic happened

vars == <<debug_assertions, arith, pc, args, self, other, self_lower,
          other_lower, half_tested, lhs, rhs, muls, result, panic>>

---------------------------------------------------------------------------
(* Bounds of the model *)

\* bit width of the signed integer type T
W == 3

\* largest magnitude of a component the caller passes (clipped to T's range)
MaxCoord == 4

---------------------------------------------------------------------------
(* The element type T *)

RECURSIVE Pow2(_)
Pow2(n) == IF n = 0 THEN 1 ELSE 2 * Pow2(n - 1)

TMin == -Pow2(W - 1)

TMax == Pow2(W - 1) - 1

InT(n) == TMin <= n /\ n <= TMax

Max(m, n) == IF m >= n THEN m ELSE n

Min(m, n) == IF m <= n THEN m ELSE n

\* the values of T the caller passes as components
Coord == Max(TMin, -MaxCoord) .. Min(TMax, MaxCoord)

\* T::default() of an integer type
Default == 0

\* two's complement wrap of a product to W bits, as unsigned (a mutation)
wrapping_unsigned(n) == n % Pow2(W)

\* two's complement wrap of a mathematical product to W bits
wrapping(n) == ((n - TMin) % Pow2(W)) + TMin

\* T's `*` never panics (a mutation of mul_overflows)
mul_never_overflows(m, n) == FALSE

\* `m * n` panics: overflow checks are on and the product leaves T's range
mul_overflows(m, n) == arith = "checked" /\ ~InT(m * n)

\* the value of `m * n` when it does not panic
mul(m, n) == IF arith = "wrapping" THEN wrapping(m * n) ELSE m * n

\* Ord::cmp with its arguments exchanged (a mutation)
cmp_reversed(m, n) == IF m > n THEN "Less" ELSE IF m = n THEN "Equal" ELSE "Greater"

\* Ord::cmp on T
cmp(m, n) == IF m < n THEN "Less" ELSE IF m = n THEN "Equal" ELSE "Greater"

\* Ord::cmp on bool with true before false (a mutation)
bool_cmp_reversed(p, q) == IF p = q THEN "Equal" ELSE IF p /\ ~q THEN "Less" ELSE "Greater"

\* Ord::cmp on bool: false < true
bool_cmp(p, q) == IF p = q THEN "Equal" ELSE IF ~p /\ q THEN "Less" ELSE "Greater"

\* `<` on pairs: lexicographic
PairLt(p, q) == p[1] < q[1] \/ (p[1] = q[1] /\ p[2] < q[2])

\* `<=` on pairs: lexicographic (used by a mutation)
PairLe(p, q) == p = q \/ PairLt(p, q)

\* Ordering::then_with calls its closure whatever the first ordering (a mutation)
closure_runs_always(first) == TRUE

\* Ordering::then_with calls its closure only when the first ordering is Equal
closure_runs(first) == first = "Equal"

---------------------------------------------------------------------------
(* Vector2D<T> *)

\* new with the components exchanged (a mutation)
new_swapped(px, py) == <<py, px>>

\* Vector2D::new: the tuple struct Self(x, y)
new(px, py) == <<px, py>>

\* Vector2D::x: self.0
x(v) == v[1]

\* Vector2D::y: self.1
y(v) == v[2]

\* Vector2D::zero
zero == <<Default, Default>>

Vectors == Coord \X Coord

NonZero == Vectors \ {zero}

\* debug_assert! compiled out in every build (a mutation)
debug_assert_elided(cond) == FALSE

\* debug_assert!(cond) panics
debug_assert_fails(cond) == debug_assertions /\ ~cond

\* the half-plane test on y alone (a mutation)
lower_half_y_only(v) == y(v) < Default

\* the half-plane test with <= (a mutation)
lower_half_le(v) == PairLe(<<y(v), x(v)>>, <<Default, Default>>)

\* (v.y(), v.x()) < (T::default(), T::default())
lower_half(v) == PairLt(<<y(v), x(v)>>, <<Default, Default>>)

MsgSelf == "self must not be zero"

MsgOther == "other must not be zero"

MsgOverflow == "attempt to multiply with overflow"

Orderings == {"Less", "Equal", "Greater"}

\* What a call s.arg_cmp(&o) ends in, in the build of the current state:
\* an Ordering, or the message of the panic
arg_cmp(s, o) ==
    IF debug_assert_fails(s # zero) THEN MsgSelf
    ELSE IF debug_assert_fails(o # zero) THEN MsgOther
    ELSE LET h == bool_cmp(lower_half(s), lower_half(o)) IN
         IF ~closure_runs(h) THEN h
         ELSE IF mul_overflows(x(o), y(s)) THEN MsgOverflow
         ELSE IF mul_overflows(x(s), y(o)) THEN MsgOverflow
         ELSE cmp(mul(x(o), y(s)), mul(x(s), y(o)))

---------------------------------------------------------------------------
(* The state machine: one caller, one call at a time *)

Idle ==
    /\ pc = "idle"
    /\ args = <<Default, Default, Default, Default>>
    /\ self = zero
    /\ other = zero
    /\ self_lower = FALSE
    /\ other_lower = FALSE
    /\ half_tested = FALSE
    /\ lhs = Default
    /\ rhs = Default
    /\ muls = 0
    /\ result = "none"
    /\ panic = "none"

Init ==
    /\ debug_assertions \in BOOLEAN
    /\ arith \in {"exact", "checked", "wrapping"}
    /\ Idle

\* the caller builds two vectors and calls self.arg_cmp(&other)
Call ==
    /\ pc = "idle"
    /\ \E px \in Coord, py \in Coord, qx \in Coord, qy \in Coord :
          /\ args' = <<px, py, qx, qy>>
          /\ self' = new(px, py)
          /\ other' = new(qx, qy)
    /\ pc' = "assert_self"
    /\ UNCHANGED <<debug_assertions, arith, self_lower, other_lower,
                   half_tested, lhs, rhs, muls, result, panic>>

\* debug_assert!(*self != Self::zero(), "self must not be zero")
AssertSelf ==
    /\ pc = "assert_self"
    /\ IF debug_assert_fails(self # zero)
          THEN pc' = "panicked" /\ panic' = MsgSelf
          ELSE pc' = "assert_other" /\ panic' = panic
    /\ UNCHANGED <<debug_assertions, arith, args, self, other, self_lower,
                   other_lower, half_tested, lhs, rhs, muls, result>>

\* debug_assert!(*other != Self::zero(), "other must not be zero")
AssertOther ==
    /\ pc = "assert_other"
    /\ IF debug_assert_fails(other # zero)
          THEN pc' = "panicked" /\ panic' = MsgOther
          ELSE pc' = "half" /\ panic' = panic
    /\ UNCHANGED <<debug_assertions, arith, args, self, other, self_lower,
                   other_lower, half_tested, lhs, rhs, muls, result>>

\* ((self.y(), self.x()) < (0, 0)).cmp(&((other.y(), other.x()) < (0, 0)))
\* and then_with's decision to return it or to call the closure
HalfPlane ==
    /\ pc = "half"
    /\ self_lower' = lower_half(self)
    /\ other_lower' = lower_half(other)
    /\ half_tested' = TRUE
    /\ LET h == bool_cmp(lower_half(self), lower_half(other)) IN
          IF closure_runs(h)
             THEN pc' = "mul_lhs" /\ result' = result
             ELSE pc' = "done" /\ result' = h
    /\ UNCHANGED <<debug_assertions, arith, args, self, other, lhs, rhs,
                   muls, panic>>

\* other.x() * self.y()
MulLhs ==
    /\ pc = "mul_lhs"
    /\ IF mul_overflows(x(other), y(self))
          THEN /\ pc' = "panicked"
               /\ panic' = MsgOverflow
               /\ UNCHANGED <<lhs, muls>>
          ELSE /\ pc' = "mul_rhs"
               /\ lhs' = mul(x(other), y(self))
               /\ muls' = muls + 1
               /\ panic' = panic
    /\ UNCHANGED <<debug_assertions, arith, args, self, other, self_lower,
                   other_lower, half_tested, rhs, result>>

\* self.x() * other.y(), then (lhs).cmp(&rhs) is returned
MulRhs ==
    /\ pc = "mul_rhs"
    /\ IF mul_overflows(x(self), y(other))
          THEN /\ pc' = "panicked"
               /\ panic' = MsgOverflow
               /\ UNCHANGED <<rhs, muls, result>>
          ELSE /\ pc' = "done"
               /\ rhs' = mul(x(self), y(other))
               /\ muls' = muls + 1
               /\ result' = cmp(lhs, mul(x(self), y(other)))
               /\ panic' = panic
    /\ UNCHANGED <<debug_assertions, arith, args, self, other, self_lower,
                   other_lower, half_tested, lhs>>

\* the caller has the Ordering and is ready for its next call; the vectors
\* are Copy values that are dropped
Return ==
    /\ pc = "done"
    /\ pc' = "idle"
    /\ args' = <<Default, Default, Default, Default>>
    /\ self' = zero
    /\ other' = zero
    /\ self_lower' = FALSE
    /\ other_lower' = FALSE
    /\ half_tested' = FALSE
    /\ lhs' = Default
    /\ rhs' = Default
    /\ muls' = 0
    /\ result' = "none"
    /\ panic' = panic
    /\ UNCHANGED <<debug_assertions, arith>>

Next ==
    \/ Call
    \/ AssertSelf
    \/ AssertOther
    \/ HalfPlane
    \/ MulLhs
    \/ MulRhs
    \/ Return

Spec == Init /\ [][Next]_vars

---------------------------------------------------------------------------
(* Types *)

TypeOK ==
    /\ debug_assertions \in BOOLEAN
    /\ arith \in {"exact", "checked", "wrapping"}
    /\ pc \in {"idle", "assert_self", "assert_other", "half", "mul_lhs",
               "mul_rhs", "done", "panicked"}
    /\ self \in Vectors
    /\ other \in Vectors
    /\ muls \in 0 .. 2
    /\ result \in Orderings \cup {"none"}
    /\ panic \in {"none", MsgSelf, MsgOther, MsgOverflow}
    /\ (pc = "done") = (result # "none")
    /\ (pc = "panicked") = (panic # "none")

---------------------------------------------------------------------------
(* The polar angle, as the documentation of arg_cmp defines it: measured   *)
(* counter-clockwise from the positive x-axis, in [0, 2*pi).  The angle is  *)
(* given by its quadrant and, inside the quadrant, by its tangent after the *)
(* vector is turned back into the first quadrant.  Mathematical integers.   *)

\* 0: [0, pi/2)   1: [pi/2, pi)   2: [pi, 3pi/2)   3: [3pi/2, 2pi)
Quadrant(v) ==
    IF v[1] > 0 /\ v[2] >= 0 THEN 0
    ELSE IF v[1] <= 0 /\ v[2] > 0 THEN 1
    ELSE IF v[1] < 0 /\ v[2] <= 0 THEN 2
    ELSE 3

\* v turned clockwise by Quadrant(v) quarter turns: into x > 0, y >= 0
TurnedBack(v) ==
    CASE Quadrant(v) = 0 -> <<v[1], v[2]>>
      [] Quadrant(v) = 1 -> <<v[2], -v[1]>>
      [] Quadrant(v) = 2 -> <<-v[1], -v[2]>>
      [] Quadrant(v) = 3 -> <<-v[2], v[1]>>

\* arg(u) < arg(v), for non-zero u and v
ArgLess(u, v) ==
    \/ Quadrant(u) < Quadrant(v)
    \/ /\ Quadrant(u) = Quadrant(v)
       /\ TurnedBack(u)[2] * TurnedBack(v)[1] < TurnedBack(v)[2] * TurnedBack(u)[1]

\* the three-way comparison of arg(u) and arg(v)
ArgOrder(u, v) ==
    IF ArgLess(u, v) THEN "Less" ELSE IF ArgLess(v, u) THEN "Greater" ELSE "Equal"

\* v is a positive rational multiple of u
SameDirection(u, v) ==
    \E m \in 1 .. -TMin, n \in 1 .. -TMin :
        m * v[1] = n * u[1] /\ m * v[2] = n * u[2]

\* y < 0, or y = 0 and x < 0
InLowerHalf(v) == v[2] < 0 \/ (v[2] = 0 /\ v[1] < 0)

Reverse(o) == IF o = "Less" THEN "Greater" ELSE IF o = "Greater" THEN "Less" ELSE o

\* neither product of the call leaves T's range, or T multiplies exactly
ProductsExact(s, o) ==
    arith = "exact" \/ (InT(x(o) * y(s)) /\ InT(x(s) * y(o)))

\* a call has returned an Ordering for two non-zero vectors
ReturnedNonZero == pc = "done" /\ self \in NonZero /\ other \in NonZero

---------------------------------------------------------------------------
(* Claims *)

\* C1: for non-zero a, b whose products are computed exactly, a.arg_cmp(&b)
\* is the three-way comparison of their polar angles in [0, 2*pi); a vector
\* on the positive x-axis is never Greater than another non-zero vector.
C1_ArgCmpIsPolarAngleOrder ==
    (ReturnedNonZero /\ ProductsExact(self, other)) =>
        /\ result = ArgOrder(self, other)
        /\ (y(self) = 0 /\ x(self) > 0) => result # "Greater"

C1_Witness ==
    /\ ReturnedNonZero
    /\ arith = "exact"
    /\ self_lower /\ other_lower
    /\ ~InT(rhs)
    /\ result = "Less"

\* C2: over the non-zero vectors with exact arithmetic, arg_cmp is
\* antisymmetric (b.arg_cmp(&a) is the reverse of a.arg_cmp(&b)) and
\* transitive (a <= b and b <= c imply a <= c, strictly if either is strict).
C2_ArgCmpIsTotalOrder ==
    (ReturnedNonZero /\ arith = "exact") =>
        /\ arg_cmp(other, self) = Reverse(result)
        /\ \A c \in NonZero :
              /\ arg_cmp(other, c) \in Orderings
              /\ arg_cmp(self, c) \in Orderings
              /\ (result # "Greater" /\ arg_cmp(other, c) # "Greater") =>
                    /\ arg_cmp(self, c) # "Greater"
                    /\ (result = "Less" \/ arg_cmp(other, c) = "Less")
                          => arg_cmp(self, c) = "Less"

C2_Witness ==
    /\ ReturnedNonZero
    /\ arith = "exact"
    /\ result = "Less"
    /\ \E c \in NonZero :
          /\ arg_cmp(other, c) = "Less"
          /\ arg_cmp(self, c) = "Less"
          /\ ~self_lower /\ other_lower /\ lower_half(c)

\* C3: for non-zero a, b with exact products, a.arg_cmp(&b) is Equal iff b is
\* a positive multiple of a; a.arg_cmp(&a) is Equal, and anti-parallel
\* vectors never compare Equal.
C3_EqualIffSameDirection ==
    (ReturnedNonZero /\ ProductsExact(self, other)) =>
        /\ (result = "Equal") <=> SameDirection(self, other)
        /\ self = other => result = "Equal"
        /\ (x(other) = -x(self) /\ y(other) = -y(self)) => result # "Equal"

C3_Witness ==
    /\ ReturnedNonZero
    /\ self # other
    /\ result = "Equal"

\* C4 as claimed: with S = new(0,-1) and E = new(1,0), S.arg_cmp(&E) is Less.
C4_Original ==
    (pc = "done" /\ self = new(0, -1) /\ other = new(1, 0)) => result = "Less"

\* C4 as amended: with S = new(0,-1) and E = new(1,0), S.arg_cmp(&E) is
\* Greater (E has argument 0 and sorts first), and E.arg_cmp(&S) is Less.
C4_SouthAfterEast ==
    /\ (pc = "done" /\ self = new(0, -1) /\ other = new(1, 0)) => result = "Greater"
    /\ (pc = "done" /\ self = new(1, 0) /\ other = new(0, -1)) => result = "Less"

C4_Witness ==
    pc = "done" /\ self = new(0, -1) /\ other = new(1, 0) /\ result = "Greater"

\* C5: with debug assertions on, a call with self or other the zero vector
\* ends in the assertion's panic and never returns an Ordering; self is
\* checked first, and both checks come before the half-plane test and before
\* any multiplication.
C5_ZeroOperandAsserts ==
    debug_assertions =>
        /\ (pc \in {"assert_other", "half", "mul_lhs", "mul_rhs", "done"})
              => self # zero
        /\ (pc \in {"half", "mul_lhs", "mul_rhs", "done"}) => other # zero
        /\ (pc = "panicked" /\ self = zero) => panic = MsgSelf
        /\ (pc = "panicked" /\ self # zero /\ other = zero) => panic = MsgOther
        /\ (panic \in {MsgSelf, MsgOther}) =>
              ~half_tested /\ muls = 0 /\ result = "none"
        /\ (pc = "assert_self" /\ self = zero) => ENABLED AssertSelf
        /\ (pc = "assert_other" /\ other = zero) => ENABLED AssertOther

C5_Witness ==
    /\ debug_assertions
    /\ pc = "panicked"
    /\ self # zero /\ other = zero
    /\ panic = MsgOther

\* C6 as claimed: in a debug build (debug assertions and overflow checks on)
\* arg_cmp never fails for non-zero vectors, products outside the W-bit range
\* included.
C6_Original ==
    (debug_assertions /\ arith = "checked" /\ self \in NonZero /\ other \in NonZero)
        => pc # "panicked"

\* C6 as amended: with overflow checks on, a call with non-zero vectors fails
\* exactly when both lie in the same half and one of other.x*self.y,
\* self.x*other.y is outside the W-bit range, and then with the multiplication's
\* overflow panic; a pair in different halves is never multiplied.
C6_FailsOnlyOnSameHalfOverflow ==
    (arith = "checked" /\ self \in NonZero /\ other \in NonZero
       /\ pc \in {"done", "panicked"}) =>
        /\ (pc = "panicked") <=>
              /\ InLowerHalf(self) = InLowerHalf(other)
              /\ ~(InT(x(other) * y(self)) /\ InT(x(self) * y(other)))
        /\ pc = "panicked" => panic = MsgOverflow /\ result = "none"
        /\ InLowerHalf(self) # InLowerHalf(other) => muls = 0

C6_Witness ==
    /\ arith = "checked" /\ debug_assertions
    /\ self \in NonZero /\ other \in NonZero
    /\ pc = "panicked"
    /\ panic = MsgOverflow
    /\ muls = 1

\* C7 as claimed: with products wrapping modulo 2^W, arg_cmp still equals the
\* comparison of the polar angles for every pair of non-zero vectors of T.
C7_Original ==
    (ReturnedNonZero /\ arith = "wrapping") => result = ArgOrder(self, other)

\* C7 as amended: with products wrapping modulo 2^W, arg_cmp equals the
\* comparison of the polar angles for every pair of non-zero vectors that lie
\* in different halves or whose two products are both inside the W-bit range;
\* it always returns the comparison of the two wrapped products otherwise.
C7_ExactUnlessProductWraps ==
    (arith = "wrapping" /\ self \in NonZero /\ other \in NonZero) =>
        /\ pc # "panicked"
        /\ (pc = "done" /\ (InLowerHalf(self) # InLowerHalf(other)
                              \/ (InT(x(other) * y(self)) /\ InT(x(self) * y(other)))))
              => result = ArgOrder(self, other)
        /\ (pc = "done" /\ InLowerHalf(self) = InLowerHalf(other))
              => /\ InT(lhs) /\ InT(rhs)
                 /\ (lhs - x(other) * y(self)) % Pow2(W) = 0
                 /\ (rhs - x(self) * y(other)) % Pow2(W) = 0
                 /\ result = cmp(lhs, rhs)

C7_Witness ==
    /\ ReturnedNonZero
    /\ arith = "wrapping"
    /\ self_lower /\ other_lower
    /\ lhs < 0 /\ rhs > 0
    /\ lhs = x(other) * y(self) /\ rhs = x(self) * y(other)
    /\ result = "Less"

\* C8: new(x, y).x() = x and new(x, y).y() = y for all x, y; building a vector
\* never fails; zero() has both components equal to the default of T.
C8_ConstructionRoundTrip ==
    /\ (pc # "idle") =>
          /\ x(self) = args[1] /\ y(self) = args[2]
          /\ x(other) = args[3] /\ y(other) = args[4]
    /\ (pc = "assert_self") => panic = "none"
    /\ x(zero) = Default /\ y(zero) = Default
    /\ (pc = "idle") => self = zero /\ x(self) = Default /\ y(self) = Default

C8_Witness ==
    /\ pc = "assert_self"
    /\ args[1] # args[2]
    /\ x(self) = args[1] /\ y(self) = args[2]
    /\ args[3] # args[4]

\* C9: a vector is in the lower half iff y < 0 or (y = 0 and x < 0); an
\* upper-half self against a lower-half other is Less and the reverse is
\* Greater, without any multiplication, whatever the cross product; the
\* comparison of the two products is the result only in the same half.
C9_HalfPlaneIsPrimaryKey ==
    /\ half_tested =>
          /\ self_lower = InLowerHalf(self)
          /\ other_lower = InLowerHalf(other)
    /\ (half_tested /\ ~self_lower /\ other_lower) =>
          pc = "done" /\ result = "Less" /\ muls = 0
    /\ (half_tested /\ self_lower /\ ~other_lower) =>
          pc = "done" /\ result = "Greater" /\ muls = 0
    /\ (pc = "done" /\ self_lower = other_lower) =>
          /\ muls = 2
          /\ lhs = mul(x(other), y(self))
          /\ rhs = mul(x(self), y(other))
          /\ result = cmp(lhs, rhs)

C9_Witness ==
    /\ pc = "done"
    /\ ~self_lower /\ other_lower
    /\ y(self) = 0 /\ x(self) > 0
    /\ x(other) * y(self) > x(self) * y(other)
    /\ result = "Less"

\* C10: without debug assertions a call with a zero operand does not fail;
\* zero is in the upper half and both products are 0, so zero is Equal to
\* every upper-half vector and to itself and Less than every lower-half
\* vector (reversed when zero is the second operand); arg_cmp is then not
\* transitive: (1,0) Equal zero, zero Equal (0,1), yet (1,0) Less (0,1).
C10_ZeroOperandWithoutAssertions ==
    (~debug_assertions /\ (self = zero \/ other = zero) /\ pc # "idle") =>
        /\ pc # "panicked"
        /\ (half_tested /\ self = zero) => ~self_lower
        /\ (half_tested /\ other = zero) => ~other_lower
        /\ (pc = "done" /\ self = zero) =>
              result = (IF InLowerHalf(other) THEN "Less" ELSE "Equal")
        /\ (pc = "done" /\ other = zero) =>
              result = (IF InLowerHalf(self) THEN "Greater" ELSE "Equal")
        /\ (pc = "done" /\ self = new(1, 0) /\ other = zero) =>
              /\ result = "Equal"
              /\ arg_cmp(zero, new(0, 1)) = "Equal"
              /\ arg_cmp(new(1, 0), new(0, 1)) = "Less"

C10_Witness ==
    /\ ~debug_assertions
    /\ arith = "checked"
    /\ pc = "done"
    /\ self = new(1, 0) /\ other = zero
    /\ result = "Equal"
    /\ muls = 2

=============================================================================
